---- MODULE Spec2Model ----
(***************************************************************************)
(* World Wide Linky's API (src/main.py, src/link_funcs.py): two flat JSON  *)
(* files, the Link Store (links.json) and the Vote Log (votes.json), and   *)
(* the HTTP handlers that read a whole file, change the value in memory    *)
(* and write the whole file back.                                          *)
(***************************************************************************)
EXTENDS Integers, Sequences, FiniteSets, TLC

\* ------------------------------------------------------------------ bounds
MaxLinks == 2        \* links created in the request specifications
MaxVotes == 2        \* records in the vote log
MaxCount == 2        \* likes + dislikes over all links
MaxTick == 2         \* readings of the wall clock

\* ------------------------------------------------------------ input values
NoneVal == "None"

LinkIds == 1..(MaxLinks + 1)

VoteTypes == {"like", "dislike", "love"}

\* datetime.now(): a naive local wall-clock reading <<second, microsecond>>,
\* here of a clock with two readings per second
Times == {<<t \div 2, t % 2>> : t \in 0..MaxTick}

\* request bodies of POST /api/process-link (LinkData)
LinkDatas ==
    { [url |-> "u1", title |-> NoneVal, description |-> NoneVal],
      [url |-> "u2", title |-> "T", description |-> "D"] }

\* the request body the voting specifications submit
VoteSpecDatas == {[url |-> "u1", title |-> NoneVal, description |-> "D"]}

\* how a whole-file write ends: it completes, open() raises and the file is
\* untouched, or open() has truncated the file and the dump raises
WriteOk == "ok"
OpenFails == "open_fails"
DumpFails == "dump_fails"
WriteOutcomes == {WriteOk, OpenFails, DumpFails}

\* --------------------------------------------------------------- the files
\* A backing file is absent, unparsable, or holds a JSON array.
MissingFile == [state |-> "missing", data |-> <<>>]
MalformedFile == [state |-> "malformed", data |-> <<>>]
JsonFile(items) == [state |-> "ok", data |-> items]

\* os.path.exists / json.load: the parsed array, or an exception
Raised == [ok |-> FALSE, val |-> <<>>]
Returned(v) == [ok |-> TRUE, val |-> v]

\* class Link: the in-memory record
Link(id, url, title, description, likes, dislikes) ==
    [id |-> id, url |-> url, title |-> title, description |-> description,
     likes |-> likes, dislikes |-> dislikes]

\* a JSON object of links.json; save_link writes no likes / dislikes keys
LinkItem(id, url, title, description, has_counts, likes, dislikes) ==
    [id |-> id, url |-> url, title |-> title, description |-> description,
     has_counts |-> has_counts, likes |-> likes, dislikes |-> dislikes]

\* item.get("likes", 0), item.get("dislikes", 0)
ItemToLink(item) ==
    Link(item.id, item.url, item.title, item.description,
         IF item.has_counts THEN item.likes ELSE 0,
         IF item.has_counts THEN item.dislikes ELSE 0)

\* variant: the counters are not written, as save_link writes a new link
LinkToItem_noCounts(link) ==
    LinkItem(link.id, link.url, link.title, link.description, FALSE, 0, 0)

LinkToItem(link) ==
    LinkItem(link.id, link.url, link.title, link.description,
             TRUE, link.likes, link.dislikes)

\* variant: an unparsable file is read as the empty list
read_links_malformedAsEmpty(f) ==
    IF f.state = "ok"
    THEN Returned([i \in 1..Len(f.data) |-> ItemToLink(f.data[i])])
    ELSE Returned(<<>>)

read_links(f) ==
    IF f.state = "missing" THEN Returned(<<>>)
    ELSE IF f.state = "malformed" THEN Raised
    ELSE Returned([i \in 1..Len(f.data) |-> ItemToLink(f.data[i])])

\* the file after write_links(db_path, links) ended with outcome w
write_links(f, links, w) ==
    IF w = WriteOk THEN JsonFile([i \in 1..Len(links) |-> LinkToItem(links[i])])
    ELSE IF w = OpenFails THEN f
    ELSE MalformedFile

read_votes(f) ==
    IF f.state = "missing" THEN Returned(<<>>)
    ELSE IF f.state = "malformed" THEN Raised
    ELSE Returned(f.data)

write_votes(f, votes, w) ==
    IF w = WriteOk THEN JsonFile(votes)
    ELSE IF w = OpenFails THEN f
    ELSE MalformedFile

\* ------------------------------------------------------------- timestamps
\* datetime.isoformat(): the microsecond part is left out when it is 0.
\* The string is modelled as the sequence of its fields.
isoformat(t) == IF t[2] = 0 THEN <<t[1]>> ELSE <<t[1], t[2]>>

Min2(a, b) == IF a <= b THEN a ELSE b

\* str < str: lexicographic, a proper prefix is smaller
StrLess(a, b) ==
    \/ /\ Len(a) < Len(b)
       /\ \A i \in 1..Len(a) : a[i] = b[i]
    \/ \E i \in 1..Min2(Len(a), Len(b)) :
          /\ a[i] < b[i]
          /\ \A j \in 1..(i - 1) : a[j] = b[j]

\* a record of votes.json
VoteRecord(link_id, vote_type, timestamp) ==
    [link_id |-> link_id, vote_type |-> vote_type, timestamp |-> timestamp]

\* ------------------------------------------------------------ list helpers
\* variant: an unknown id falls back on the first stored link
FindLink_firstWhenMissing(links, link_id) ==
    IF \E i \in 1..Len(links) : links[i].id = link_id
    THEN CHOOSE i \in 1..Len(links) :
            /\ links[i].id = link_id
            /\ \A j \in 1..(i - 1) : links[j].id # link_id
    ELSE IF Len(links) > 0 THEN 1 ELSE 0

\* next((l for l in links if l.id == link_id), None): index of the first
\* match, 0 for None
FindLink(links, link_id) ==
    IF \E i \in 1..Len(links) : links[i].id = link_id
    THEN CHOOSE i \in 1..Len(links) :
            /\ links[i].id = link_id
            /\ \A j \in 1..(i - 1) : links[j].id # link_id
    ELSE 0

MaxOf(S, default) ==
    IF S = {} THEN default ELSE CHOOSE x \in S : \A y \in S : y <= x

\* variant: the ids are read under a key the stored items do not have
NewId_wrongKey(items) == MaxOf({0 : i \in 1..Len(items)}, 0) + 1

\* variant: the default of max() is 1 instead of 0
NewId_defaultOne(items) == MaxOf({items[i].id : i \in 1..Len(items)}, 1) + 1

\* max([link.get("id",0) for link in links], default=0) + 1
NewId(items) == MaxOf({items[i].id : i \in 1..Len(items)}, 0) + 1

\* ------------------------------------------------------------------- state
VARIABLES
    linksFile,   \* V1/db/links.json
    votesFile,   \* V1/db/votes.json
    resp,        \* the last request and its response
    procs        \* the add_vote requests in flight on the event loop

vars == <<linksFile, votesFile, resp, procs>>

\* the last request (its operation and arguments) and its response
Response(op, link_id, vote_type, status, body) ==
    [op |-> op, link_id |-> link_id, vote_type |-> vote_type,
     now |-> <<0, 0>>, status |-> status, body |-> body]

NoResponse == Response("none", 0, NoneVal, 0, <<>>)

\* a request of the event loop: where its handler stands, its arguments,
\* the lists the handler holds in memory and the status it answered
Procs == {1, 2}

Proc(pc, link_id, vote_type, links, votes, status) ==
    [pc |-> pc, link_id |-> link_id, vote_type |-> vote_type,
     links |-> links, votes |-> votes, status |-> status]

IdleProc == Proc("idle", 0, NoneVal, <<>>, <<>>, 0)

NoProcs == [p \in Procs |-> IdleProc]

\* the response of a vote that was recorded at clock reading now
VotedAt(r, now) == [r EXCEPT !.now = now]

\* ------------------------------------------------- POST /api/process-link
\* variant: the stored items are rebuilt from id, url, title and description
\* alone, as read_links of link_funcs.py reads them
save_link_dropsCounts(f, url, title, description, w) ==
    LET links == IF f.state = "ok"
                 THEN [i \in 1..Len(f.data) |->
                          LinkItem(f.data[i].id, f.data[i].url, f.data[i].title,
                                   f.data[i].description, FALSE, 0, 0)]
                 ELSE <<>>
        new_link == LinkItem(NewId(links), url, title, description, FALSE, 0, 0)
    IN  IF w = WriteOk THEN JsonFile(Append(links, new_link))
        ELSE IF w = OpenFails THEN f
        ELSE MalformedFile

\* save_link(db, url, title, description): the links file afterwards.
\* The items already in the file are written back as they were read.
save_link(f, url, title, description, w) ==
    LET links == IF f.state = "ok" THEN f.data ELSE <<>>
        new_link == LinkItem(NewId(links), url, title, description, FALSE, 0, 0)
    IN  IF w = WriteOk THEN JsonFile(Append(links, new_link))
        ELSE IF w = OpenFails THEN f
        ELSE MalformedFile

\* the "title" / "description" of the response body
ResultText(given) == IF given = NoneVal \/ given = "" THEN "Not Provided" ELSE given

\* variant: the stored title takes the default of the response
StoredTitle_asResponse(given) ==
    IF given = NoneVal \/ given = "" THEN "Not Provided" ELSE given

\* the title and the description handed to save_link
StoredTitle(given) ==
    IF given = NoneVal \/ given = "" THEN "No Title Provided" ELSE given

StoredDescription(given) ==
    IF given = NoneVal \/ given = "" THEN "No Description Provided" ELSE given

ProcessResult(data) ==
    [original_url |-> data.url, title |-> ResultText(data.title),
     description |-> ResultText(data.description), status |-> "processed"]

process_link(data, w) ==
    /\ UNCHANGED <<votesFile, procs>>
    /\ IF linksFile.state = "malformed"
       THEN /\ UNCHANGED linksFile
            /\ resp' = Response("process_link", 0, NoneVal, 500, <<>>)
       ELSE /\ linksFile' = save_link(linksFile, data.url,
                                      StoredTitle(data.title),
                                      StoredDescription(data.description), w)
            /\ resp' = IF w = WriteOk
                       THEN Response("process_link", 0, NoneVal, 200,
                                     <<ProcessResult(data)>>)
                       ELSE Response("process_link", 0, NoneVal, 500, <<>>)

\* ---------------------------------------------------------- POST /api/vote
\* variant: the vote type is ignored and likes is always the counter raised
IncrementVote_likesOnly(links, idx, vote_type) ==
    [links EXCEPT ![idx].likes = @ + 1]

\* link.likes += 1 / link.dislikes += 1 on the link found
IncrementVote(links, idx, vote_type) ==
    IF vote_type = "like"
    THEN [links EXCEPT ![idx].likes = @ + 1]
    ELSE [links EXCEPT ![idx].dislikes = @ + 1]

ValidVoteType(vote_type) == vote_type = "like" \/ vote_type = "dislike"

\* variant: the vote type is validated before the link is looked up
AddVoteCheck_typeFirst(rl, rv, link_id, vote_type) ==
    IF ~rl.ok \/ ~rv.ok THEN 500
    ELSE IF ~ValidVoteType(vote_type) THEN 400
    ELSE IF FindLink(rl.val, link_id) = 0 THEN 404
    ELSE 0

\* the status add_vote raises before it writes anything, 0 when it goes on
AddVoteCheck(rl, rv, link_id, vote_type) ==
    IF ~rl.ok \/ ~rv.ok THEN 500
    ELSE IF FindLink(rl.val, link_id) = 0 THEN 404
    ELSE IF ~ValidVoteType(vote_type) THEN 400
    ELSE 0

add_vote(link_id, vote_type, now, wl, wv) ==
    LET rl == read_links(linksFile)
        rv == read_votes(votesFile)
        early == AddVoteCheck(rl, rv, link_id, vote_type)
        new_vote == VoteRecord(link_id, vote_type, isoformat(now))
    IN  /\ UNCHANGED procs
        /\ IF early # 0
           THEN /\ UNCHANGED <<linksFile, votesFile>>
                /\ resp' = Response("add_vote", link_id, vote_type, early, <<>>)
           ELSE /\ linksFile' = write_links(linksFile,
                        IncrementVote(rl.val, FindLink(rl.val, link_id), vote_type),
                        wl)
                /\ votesFile' = IF wl = WriteOk
                                THEN write_votes(votesFile,
                                                 Append(rv.val, new_vote), wv)
                                ELSE votesFile
                /\ resp' = IF wl = WriteOk /\ wv = WriteOk
                           THEN VotedAt(Response("add_vote", link_id, vote_type,
                                                 200, <<>>), now)
                           ELSE Response("add_vote", link_id, vote_type, 500, <<>>)

\* ------------------------------------------------ DELETE /api/vote/{link_id}
\* variant: every record of the log counts as a vote of the link
LinkVotes_anyLink(votes, link_id) == votes

\* [v for v in votes if v["link_id"] == link_id]
LinkVotes(votes, link_id) == SelectSeq(votes, LAMBDA v : v.link_id = link_id)

\* list.sort(key=timestamp, reverse=True) is stable: a record goes behind
\* every record already placed whose timestamp is not smaller
InsertByTimestamp(sorted, v) ==
    LET k == Cardinality({i \in 1..Len(sorted) :
                            ~StrLess(sorted[i].timestamp, v.timestamp)})
    IN  SubSeq(sorted, 1, k) \o <<v>> \o SubSeq(sorted, k + 1, Len(sorted))

RECURSIVE SortByTimestampDesc(_)
SortByTimestampDesc(s) ==
    IF s = <<>> THEN <<>>
    ELSE InsertByTimestamp(SortByTimestampDesc(SubSeq(s, 1, Len(s) - 1)), s[Len(s)])

\* variant: the last record of the sorted list, the oldest, is taken
RecentVote_oldest(link_votes) ==
    SortByTimestampDesc(link_votes)[Len(link_votes)]

\* recent_vote = link_votes[0] after the sort
RecentVote(link_votes) == SortByTimestampDesc(link_votes)[1]

\* variant: likes is the counter lowered, whatever the vote type
DecrementVote_likesOnly(links, idx, vote_type) ==
    [links EXCEPT ![idx].likes = IF @ - 1 > 0 THEN @ - 1 ELSE 0]

\* variant: the decrement is not floored at 0
DecrementVote_noFloor(links, idx, vote_type) ==
    IF vote_type = "like"
    THEN [links EXCEPT ![idx].likes = @ - 1]
    ELSE IF vote_type = "dislike"
    THEN [links EXCEPT ![idx].dislikes = @ - 1]
    ELSE links

\* link.likes = max(0, link.likes - 1) / link.dislikes = max(0, ...)
DecrementVote(links, idx, vote_type) ==
    IF vote_type = "like"
    THEN [links EXCEPT ![idx].likes = IF @ - 1 > 0 THEN @ - 1 ELSE 0]
    ELSE IF vote_type = "dislike"
    THEN [links EXCEPT ![idx].dislikes = IF @ - 1 > 0 THEN @ - 1 ELSE 0]
    ELSE links

\* variant: the filtered list is dropped and the log is written back whole
RemoveRecent_keepsAll(votes, link_id, recent_vote) == votes

\* [v for v in votes if not (v["link_id"] == link_id and
\*                           v["timestamp"] == recent_vote["timestamp"])]
RemoveRecent(votes, link_id, recent_vote) ==
    SelectSeq(votes, LAMBDA v : ~(v.link_id = link_id
                                  /\ v.timestamp = recent_vote.timestamp))

\* the status remove_vote raises before it writes anything, 0 when it goes on
RemoveVoteCheck(rl, rv, link_id) ==
    IF ~rl.ok \/ ~rv.ok THEN 500
    ELSE IF FindLink(rl.val, link_id) = 0 THEN 404
    ELSE IF LinkVotes(rv.val, link_id) = <<>> THEN 404
    ELSE 0

\* variant: the links file is written back before the votes of the link
\* are looked up
remove_vote_writesFirst(link_id, wl, wv) ==
    LET rl == read_links(linksFile)
        rv == read_votes(votesFile)
        early == RemoveVoteCheck(rl, rv, link_id)
        recent_vote == RecentVote(LinkVotes(rv.val, link_id))
    IN  /\ UNCHANGED procs
        /\ IF early = 500 \/ (early = 404 /\ FindLink(rl.val, link_id) = 0)
           THEN /\ UNCHANGED <<linksFile, votesFile>>
                /\ resp' = Response("remove_vote", link_id, NoneVal, early, <<>>)
           ELSE IF early = 404
           THEN /\ linksFile' = write_links(linksFile, rl.val, WriteOk)
                /\ UNCHANGED votesFile
                /\ resp' = Response("remove_vote", link_id, NoneVal, 404, <<>>)
           ELSE /\ linksFile' = write_links(linksFile,
                        DecrementVote(rl.val, FindLink(rl.val, link_id),
                                      recent_vote.vote_type), wl)
                /\ votesFile' = IF wl = WriteOk
                                THEN write_votes(votesFile,
                                         RemoveRecent(rv.val, link_id, recent_vote),
                                         wv)
                                ELSE votesFile
                /\ resp' = Response("remove_vote", link_id, NoneVal,
                                    IF wl = WriteOk /\ wv = WriteOk THEN 200 ELSE 500,
                                    <<>>)

remove_vote(link_id, wl, wv) ==
    LET rl == read_links(linksFile)
        rv == read_votes(votesFile)
        early == RemoveVoteCheck(rl, rv, link_id)
        recent_vote == RecentVote(LinkVotes(rv.val, link_id))
    IN  /\ UNCHANGED procs
        /\ IF early # 0
           THEN /\ UNCHANGED <<linksFile, votesFile>>
                /\ resp' = Response("remove_vote", link_id, NoneVal, early, <<>>)
           ELSE /\ linksFile' = write_links(linksFile,
                        DecrementVote(rl.val, FindLink(rl.val, link_id),
                                      recent_vote.vote_type), wl)
                /\ votesFile' = IF wl = WriteOk
                                THEN write_votes(votesFile,
                                         RemoveRecent(rv.val, link_id, recent_vote),
                                         wv)
                                ELSE votesFile
                /\ resp' = Response("remove_vote", link_id, NoneVal,
                                    IF wl = WriteOk /\ wv = WriteOk THEN 200 ELSE 500,
                                    <<>>)

\* ---------------------------------------------------------- GET /api/links
Score(link) == link.likes - link.dislikes

\* variant: a link goes in front of the links of equal score
InsertByScore_tiesReversed(sorted, l) ==
    LET k == Cardinality({i \in 1..Len(sorted) : Score(sorted[i]) > Score(l)})
    IN  SubSeq(sorted, 1, k) \o <<l>> \o SubSeq(sorted, k + 1, Len(sorted))

\* sorted(links, key=score, reverse=True) is stable: a link goes behind every
\* link already placed whose score is not smaller
InsertByScore(sorted, l) ==
    LET k == Cardinality({i \in 1..Len(sorted) : Score(sorted[i]) >= Score(l)})
    IN  SubSeq(sorted, 1, k) \o <<l>> \o SubSeq(sorted, k + 1, Len(sorted))

RECURSIVE SortByScoreDesc(_)
SortByScoreDesc(s) ==
    IF s = <<>> THEN <<>>
    ELSE InsertByScore(SortByScoreDesc(SubSeq(s, 1, Len(s) - 1)), s[Len(s)])

get_links ==
    LET rl == read_links(linksFile)
    IN  /\ UNCHANGED <<linksFile, votesFile, procs>>
        /\ resp' = IF rl.ok
                   THEN Response("get_links", 0, NoneVal, 200, SortByScoreDesc(rl.val))
                   ELSE Response("get_links", 0, NoneVal, 500, <<>>)

\* ------------------------------------------------------ size of the model
FileLen(f) == Len(f.data)

\* likes + dislikes over all stored links
RECURSIVE TotalCount(_)
TotalCount(items) ==
    IF items = <<>> THEN 0
    ELSE items[1].likes + items[1].dislikes + TotalCount(Tail(items))

\* add_vote reads the clock and writes only when its checks pass: a request
\* that is refused is enumerated once, not once per clock reading and outcome
ReachesWrites(link_id, vote_type) ==
    AddVoteCheck(read_links(linksFile), read_votes(votesFile), link_id, vote_type) = 0

RemoveReachesWrites(link_id) ==
    RemoveVoteCheck(read_links(linksFile), read_votes(votesFile), link_id) = 0

ClockRead(link_id, vote_type, now) ==
    ReachesWrites(link_id, vote_type) \/ now = <<0, 0>>

CanCreate == FileLen(linksFile) < MaxLinks
CanVote == FileLen(votesFile) < MaxVotes /\ TotalCount(linksFile.data) < MaxCount

\* ------------------------------------- requests one at a time, no I/O fault
\* The server starts with no links file; __main__ creates an empty votes
\* file, an import of main:app does not.
Init ==
    /\ linksFile = MissingFile
    /\ votesFile \in {MissingFile, JsonFile(<<>>)}
    /\ resp = NoResponse
    /\ procs = NoProcs

ProcessLinkOk == \E data \in VoteSpecDatas : CanCreate /\ process_link(data, WriteOk)

AddVoteOk ==
    \E link_id \in LinkIds, vote_type \in VoteTypes, now \in Times :
        /\ CanVote
        /\ ClockRead(link_id, vote_type, now)
        /\ add_vote(link_id, vote_type, now, WriteOk, WriteOk)

RemoveVoteOk == \E link_id \in LinkIds : remove_vote(link_id, WriteOk, WriteOk)

GetLinks == get_links

Next == ProcessLinkOk \/ AddVoteOk \/ RemoveVoteOk \/ GetLinks

Spec == Init /\ [][Next]_vars

\* -------------------------------- requests one at a time, writes may fail
\* the outcomes of the links write and of the votes write of one request;
\* the votes write is not reached when the links write raises
WritePairs ==
    {<<WriteOk, wv>> : wv \in WriteOutcomes} \cup
    {<<wl, WriteOk>> : wl \in WriteOutcomes}

\* one link has been created; requests name it or an unknown id
InitFault ==
    /\ linksFile = save_link(MissingFile, "u1", "No Title Provided", "D", WriteOk)
    /\ votesFile \in {MissingFile, JsonFile(<<>>)}
    /\ resp = NoResponse
    /\ procs = NoProcs

FaultLinkIds == {1, 2}

AddVoteAny ==
    \E link_id \in FaultLinkIds, vote_type \in VoteTypes, now \in Times :
        \E w \in WritePairs :
            /\ CanVote
            /\ ClockRead(link_id, vote_type, now)
            /\ ReachesWrites(link_id, vote_type) \/ w = <<WriteOk, WriteOk>>
            /\ add_vote(link_id, vote_type, now, w[1], w[2])

RemoveVoteAny ==
    \E link_id \in FaultLinkIds, w \in WritePairs :
        /\ RemoveReachesWrites(link_id) \/ w = <<WriteOk, WriteOk>>
        /\ remove_vote(link_id, w[1], w[2])

NextFault == AddVoteAny \/ RemoveVoteAny \/ GetLinks

SpecFault == InitFault /\ [][NextFault]_vars

\* ------------------------------- creates with votes at one clock reading
MaxCreated == 3      \* links created

CreateLinkIds == 1..MaxCreated

CreateLink ==
    \E data \in LinkDatas :
        FileLen(linksFile) < MaxCreated /\ process_link(data, WriteOk)

AddVoteNow ==
    \E link_id \in CreateLinkIds, vote_type \in {"like", "dislike"} :
        CanVote /\ add_vote(link_id, vote_type, <<0, 0>>, WriteOk, WriteOk)

RemoveVoteNow == \E link_id \in CreateLinkIds : remove_vote(link_id, WriteOk, WriteOk)

NextCreate == CreateLink \/ AddVoteNow \/ RemoveVoteNow

SpecCreate == Init /\ [][NextCreate]_vars

\* --------------------------- two add_vote requests submitted at once
\* The handlers are coroutines (async def) without an await, served by the
\* one event loop that uvicorn.run starts: a handler that has begun runs to
\* its return before the loop starts another one.
InHandler(pc) == pc \in {"has_links", "has_votes", "links_written"}

\* variant: the handlers are suspended at their file operations, as plain
\* def handlers run in a thread pool would be
EventLoopFree_suspending(p) == TRUE

EventLoopFree(p) == \A q \in Procs \ {p} : ~InHandler(procs[q].pc)

Submit(p, link_id, vote_type) ==
    /\ procs[p].pc = "idle"
    /\ procs' = [procs EXCEPT ![p] = Proc("pending", link_id, vote_type, <<>>, <<>>, 0)]
    /\ UNCHANGED <<linksFile, votesFile, resp>>

\* links = read_links(links_db)
StepReadLinks(p) ==
    /\ procs[p].pc = "pending"
    /\ EventLoopFree(p)
    /\ LET rl == read_links(linksFile)
       IN  procs' = [procs EXCEPT ![p] =
                IF rl.ok THEN [@ EXCEPT !.pc = "has_links", !.links = rl.val]
                ELSE [@ EXCEPT !.pc = "done", !.status = 500]]
    /\ UNCHANGED <<linksFile, votesFile, resp>>

\* votes = read_votes(votes_db), the lookup of the link, the counter update
StepReadVotes(p) ==
    /\ procs[p].pc = "has_links"
    /\ EventLoopFree(p)
    /\ LET rv == read_votes(votesFile)
           early == AddVoteCheck(Returned(procs[p].links), rv,
                                 procs[p].link_id, procs[p].vote_type)
       IN  procs' = [procs EXCEPT ![p] =
                IF early # 0 THEN [@ EXCEPT !.pc = "done", !.status = early]
                ELSE [@ EXCEPT !.pc = "has_votes", !.votes = rv.val,
                               !.links = IncrementVote(procs[p].links,
                                             FindLink(procs[p].links, procs[p].link_id),
                                             procs[p].vote_type)]]
    /\ UNCHANGED <<linksFile, votesFile, resp>>

\* write_links(links_db, links)
StepWriteLinks(p) ==
    /\ procs[p].pc = "has_votes"
    /\ EventLoopFree(p)
    /\ linksFile' = write_links(linksFile, procs[p].links, WriteOk)
    /\ procs' = [procs EXCEPT ![p].pc = "links_written"]
    /\ UNCHANGED <<votesFile, resp>>

\* votes.append(new_vote); write_votes(votes_db, votes); return
StepWriteVotes(p, now) ==
    /\ procs[p].pc = "links_written"
    /\ EventLoopFree(p)
    /\ LET new_vote == VoteRecord(procs[p].link_id, procs[p].vote_type, isoformat(now))
       IN  /\ votesFile' = write_votes(votesFile, Append(procs[p].votes, new_vote), WriteOk)
           /\ procs' = [procs EXCEPT ![p] =
                    [@ EXCEPT !.pc = "done", !.status = 200,
                              !.votes = Append(procs[p].votes, new_vote)]]
    /\ UNCHANGED <<linksFile, resp>>

\* one link has been created and nobody has voted
InitConc ==
    /\ linksFile = save_link(MissingFile, "u1", "No Title Provided", "D", WriteOk)
    /\ votesFile = JsonFile(<<>>)
    /\ resp = NoResponse
    /\ procs = NoProcs

ConcLinkIds == {1, 2}

SubmitVote ==
    \E p \in Procs, link_id \in ConcLinkIds, vote_type \in VoteTypes :
        Submit(p, link_id, vote_type)

ReadLinksStep == \E p \in Procs : StepReadLinks(p)
ReadVotesStep == \E p \in Procs : StepReadVotes(p)
WriteLinksStep == \E p \in Procs : StepWriteLinks(p)
WriteVotesStep == \E p \in Procs, now \in Times : StepWriteVotes(p, now)

NextConc ==
    SubmitVote \/ ReadLinksStep \/ ReadVotesStep \/ WriteLinksStep \/ WriteVotesStep

SpecConc == InitConc /\ [][NextConc]_vars

\* ------------------------------------------- GET /api/links on any store
MaxRankLen == 4      \* links in the store that is ranked
MaxRankCount == 1    \* likes / dislikes of a ranked link

RankItems ==
    {LinkItem(0, "u1", "T", "D", FALSE, 0, 0)} \cup
    {LinkItem(0, "u1", "T", "D", TRUE, l, d) :
        l \in 0..MaxRankCount, d \in 0..MaxRankCount}

\* the stores of n links: ids 1..n in the order of creation, any counters
RankStores(n) ==
    {[i \in 1..n |-> [f[i] EXCEPT !.id = i]] : f \in [1..n -> RankItems]}

InitRank ==
    /\ \E n \in 0..MaxRankLen : \E items \in RankStores(n) :
           linksFile = JsonFile(items)
    /\ votesFile = JsonFile(<<>>)
    /\ resp = NoResponse
    /\ procs = NoProcs

NextRank == GetLinks

SpecRank == InitRank /\ [][NextRank]_vars

\* ------------------- from the first start of the server, writes may fail
\* every request of the API, one at a time, each write with any outcome
ProcessLinkAny ==
    \E data \in VoteSpecDatas, w \in WriteOutcomes :
        /\ CanCreate
        /\ linksFile.state # "malformed" \/ w = WriteOk
        /\ process_link(data, w)

\* the votes of this specification are cast at one clock reading
AddVoteAnyNow ==
    \E link_id \in FaultLinkIds, vote_type \in VoteTypes, w \in WritePairs :
        /\ CanVote
        /\ ReachesWrites(link_id, vote_type) \/ w = <<WriteOk, WriteOk>>
        /\ add_vote(link_id, vote_type, <<0, 0>>, w[1], w[2])

NextStore == ProcessLinkAny \/ AddVoteAnyNow \/ RemoveVoteAny \/ GetLinks

SpecStore == Init /\ [][NextStore]_vars

\* --------------------------- write_links followed by read_links
MaxRoundTripLen == 2     \* links in the list that is written

\* the Link objects a list may hold; two links of a list may be equal
RoundTripLinks ==
    {Link(id, url, "T", description, likes, dislikes) :
        id \in {1, 2}, url \in {"u1", ""}, description \in {"D"},
        likes \in {0, 1}, dislikes \in {0, 3}}

RoundTripLists ==
    UNION {[1..n -> RoundTripLinks] : n \in 0..MaxRoundTripLen}

\* the list is held in memory by the caller; the file may hold anything
InitRoundTrip ==
    /\ linksFile \in {MissingFile, MalformedFile,
                       save_link(MissingFile, "u1", "T", "D", WriteOk)}
    /\ votesFile = JsonFile(<<>>)
    /\ resp = NoResponse
    /\ \E links \in RoundTripLists :
          procs = [NoProcs EXCEPT ![1].links = links]

\* write_links(links_db, links)
RoundTripWrite ==
    /\ procs[1].pc = "idle"
    /\ linksFile' = write_links(linksFile, procs[1].links, WriteOk)
    /\ procs' = [procs EXCEPT ![1].pc = "links_written"]
    /\ UNCHANGED <<votesFile, resp>>

\* read_links(links_db)
RoundTripRead ==
    /\ procs[1].pc = "links_written"
    /\ LET rl == read_links(linksFile)
       IN  resp' = Response("read_links", 0, NoneVal,
                            IF rl.ok THEN 200 ELSE 500, rl.val)
    /\ procs' = [procs EXCEPT ![1].pc = "done"]
    /\ UNCHANGED <<linksFile, votesFile>>

NextRoundTrip == RoundTripWrite \/ RoundTripRead

SpecRoundTrip == InitRoundTrip /\ [][NextRoundTrip]_vars

\* ------------- requests one at a time, no two votes of a link at one time
\* the clock reading differs from the timestamp of every record of the link
FreshTimestamp(link_id, now) ==
    \A k \in 1..Len(votesFile.data) :
        votesFile.data[k].link_id = link_id
        => votesFile.data[k].timestamp # isoformat(now)

AddVoteFresh ==
    \E link_id \in LinkIds, vote_type \in VoteTypes, now \in Times :
        /\ CanVote
        /\ ClockRead(link_id, vote_type, now)
        /\ FreshTimestamp(link_id, now)
        /\ add_vote(link_id, vote_type, now, WriteOk, WriteOk)

NextDistinct == ProcessLinkOk \/ AddVoteFresh \/ RemoveVoteOk \/ GetLinks

SpecDistinct == Init /\ [][NextDistinct]_vars

\* ------- requests suspended at their whole-file reads and whole-file writes
\* The handlers as they would run with their file operations as suspension
\* points (several workers on the same files): a request is a sequence of
\* whole-file reads and writes, and the steps of two requests interleave.
\* The runs of the one event loop, a handler at a time, are among these.
RaceLinkIds == {1, 2}

RaceSubmitCreate(p) ==
    /\ procs[p].pc = "idle"
    /\ CanCreate
    /\ procs' = [procs EXCEPT ![p] = Proc("create_pending", 0, NoneVal, <<>>, <<>>, 0)]
    /\ UNCHANGED <<linksFile, votesFile, resp>>

RaceSubmitAdd(p, link_id, vote_type) ==
    /\ procs[p].pc = "idle"
    /\ CanVote
    /\ procs' = [procs EXCEPT ![p] = Proc("pending", link_id, vote_type, <<>>, <<>>, 0)]
    /\ UNCHANGED <<linksFile, votesFile, resp>>

RaceSubmitRemove(p, link_id) ==
    /\ procs[p].pc = "idle"
    /\ procs' = [procs EXCEPT ![p] = Proc("remove_pending", link_id, NoneVal, <<>>, <<>>, 0)]
    /\ UNCHANGED <<linksFile, votesFile, resp>>

\* save_link up to links_lst.append(new_link): the list it will write
RaceCreateRead(p, data) ==
    /\ procs[p].pc = "create_pending"
    /\ procs' = [procs EXCEPT ![p] =
            IF linksFile.state = "malformed"
            THEN [@ EXCEPT !.pc = "done", !.status = 500]
            ELSE [@ EXCEPT !.pc = "create_has_links",
                           !.links = save_link(linksFile, data.url,
                                         StoredTitle(data.title),
                                         StoredDescription(data.description),
                                         WriteOk).data]]
    /\ UNCHANGED <<linksFile, votesFile, resp>>

\* f = open(db, "w"); json.dump(links_lst, f, indent=1)
RaceCreateWrite(p) ==
    /\ procs[p].pc = "create_has_links"
    /\ linksFile' = JsonFile(procs[p].links)
    /\ procs' = [procs EXCEPT ![p] = [@ EXCEPT !.pc = "done", !.status = 200]]
    /\ UNCHANGED <<votesFile, resp>>

\* links = read_links(links_db) of add_vote and of remove_vote
RaceReadLinks(p) ==
    /\ procs[p].pc \in {"pending", "remove_pending"}
    /\ LET rl == read_links(linksFile)
           next == IF procs[p].pc = "pending" THEN "has_links" ELSE "remove_has_links"
       IN  procs' = [procs EXCEPT ![p] =
                IF rl.ok THEN [@ EXCEPT !.pc = next, !.links = rl.val]
                ELSE [@ EXCEPT !.pc = "done", !.status = 500]]
    /\ UNCHANGED <<linksFile, votesFile, resp>>

\* add_vote: votes = read_votes(votes_db), the lookup, the counter update
RaceAddReadVotes(p) ==
    /\ procs[p].pc = "has_links"
    /\ LET rv == read_votes(votesFile)
           early == AddVoteCheck(Returned(procs[p].links), rv,
                                 procs[p].link_id, procs[p].vote_type)
       IN  procs' = [procs EXCEPT ![p] =
                IF early # 0 THEN [@ EXCEPT !.pc = "done", !.status = early]
                ELSE [@ EXCEPT !.pc = "has_votes", !.votes = rv.val,
                               !.links = IncrementVote(procs[p].links,
                                             FindLink(procs[p].links, procs[p].link_id),
                                             procs[p].vote_type)]]
    /\ UNCHANGED <<linksFile, votesFile, resp>>

\* remove_vote: votes = read_votes(votes_db), the lookups, the counter
\* update; the filtered log is computed from the votes read here
RaceRemoveReadVotes(p) ==
    /\ procs[p].pc = "remove_has_links"
    /\ LET rv == read_votes(votesFile)
           early == RemoveVoteCheck(Returned(procs[p].links), rv, procs[p].link_id)
           recent_vote == RecentVote(LinkVotes(rv.val, procs[p].link_id))
       IN  procs' = [procs EXCEPT ![p] =
                IF early # 0 THEN [@ EXCEPT !.pc = "done", !.status = early]
                ELSE [@ EXCEPT !.pc = "remove_has_votes",
                               !.votes = RemoveRecent(rv.val, procs[p].link_id,
                                                      recent_vote),
                               !.links = DecrementVote(procs[p].links,
                                             FindLink(procs[p].links, procs[p].link_id),
                                             recent_vote.vote_type)]]
    /\ UNCHANGED <<linksFile, votesFile, resp>>

\* write_links(links_db, links) of add_vote and of remove_vote
RaceWriteLinks(p) ==
    /\ procs[p].pc \in {"has_votes", "remove_has_votes"}
    /\ linksFile' = write_links(linksFile, procs[p].links, WriteOk)
    /\ procs' = [procs EXCEPT ![p].pc =
            IF procs[p].pc = "has_votes" THEN "links_written"
            ELSE "remove_links_written"]
    /\ UNCHANGED <<votesFile, resp>>

\* write_votes(votes_db, votes) of add_vote, after votes.append(new_vote),
\* and of remove_vote
RaceWriteVotes(p, now) ==
    /\ procs[p].pc \in {"links_written", "remove_links_written"}
    /\ LET new_vote == VoteRecord(procs[p].link_id, procs[p].vote_type, isoformat(now))
           votes == IF procs[p].pc = "links_written"
                    THEN Append(procs[p].votes, new_vote) ELSE procs[p].votes
       IN  /\ votesFile' = write_votes(votesFile, votes, WriteOk)
           /\ procs' = [procs EXCEPT ![p] =
                    [@ EXCEPT !.pc = "done", !.status = 200, !.votes = votes]]
    /\ UNCHANGED <<linksFile, resp>>

\* three requests; the store is empty or holds one link without votes
RaceProcs == {1, 2, 3}

InitRace ==
    /\ linksFile \in {MissingFile,
                       save_link(MissingFile, "u1", "No Title Provided", "D", WriteOk)}
    /\ votesFile = JsonFile(<<>>)
    /\ resp = NoResponse
    /\ procs = [p \in RaceProcs |-> IdleProc]

RaceSubmit ==
    \E p \in RaceProcs :
        \/ RaceSubmitCreate(p)
        \/ \E link_id \in RaceLinkIds : RaceSubmitAdd(p, link_id, "like")
        \/ \E link_id \in RaceLinkIds : RaceSubmitRemove(p, link_id)

RaceCreateReadStep == \E p \in RaceProcs, data \in VoteSpecDatas : RaceCreateRead(p, data)
RaceCreateWriteStep == \E p \in RaceProcs : RaceCreateWrite(p)
RaceReadLinksStep == \E p \in RaceProcs : RaceReadLinks(p)
RaceAddReadVotesStep == \E p \in RaceProcs : RaceAddReadVotes(p)
RaceRemoveReadVotesStep == \E p \in RaceProcs : RaceRemoveReadVotes(p)
RaceWriteLinksStep == \E p \in RaceProcs : RaceWriteLinks(p)
RaceWriteVotesStep == \E p \in RaceProcs : RaceWriteVotes(p, <<0, 0>>)

NextRace ==
    \/ RaceSubmit
    \/ RaceCreateReadStep \/ RaceCreateWriteStep
    \/ RaceReadLinksStep \/ RaceAddReadVotesStep \/ RaceRemoveReadVotesStep
    \/ RaceWriteLinksStep \/ RaceWriteVotesStep

SpecRace == InitRace /\ [][NextRace]_vars

\* ------------------------------- POST /api/process-link with any body
MaxProcessed == 3        \* links created

\* title and description absent, empty or given
ProcessDatas ==
    {[url |-> url, title |-> title, description |-> description] :
        url \in {"u1", "u2"}, title \in {NoneVal, "", "T"},
        description \in {NoneVal, "", "D"}}

ProcessLinkData ==
    \E data \in ProcessDatas :
        FileLen(linksFile) < MaxProcessed /\ process_link(data, WriteOk)

NextProcess == ProcessLinkData \/ GetLinks

SpecProcess == Init /\ [][NextProcess]_vars

\* ============================================================ properties
Links == read_links(linksFile).val
Votes == read_votes(votesFile).val

StoredIdx(link_id) == {i \in 1..Len(Links) : Links[i].id = link_id}
LogIdx(link_id) == {k \in 1..Len(Votes) : Votes[k].link_id = link_id}

Counter(link, vote_type) == IF vote_type = "like" THEN link.likes ELSE link.dislikes
OtherType(vote_type) == IF vote_type = "like" THEN "dislike" ELSE "like"

RemoveAt(s, k) == SubSeq(s, 1, k - 1) \o SubSeq(s, k + 1, Len(s))

Floor0(n) == IF n > 0 THEN n ELSE 0

\* C1: a successful add_vote(link_id, t), t like or dislike, raises the
\* link's counter for t by exactly 1, leaves its other counter as it was and
\* appends exactly the record {link_id, t, now} at the end of the vote log.
C1_AddVoteCountsAndAppends ==
    [][(resp'.op = "add_vote" /\ resp'.status = 200)
       => /\ resp'.vote_type \in {"like", "dislike"}
          /\ StoredIdx(resp'.link_id) # {}
          /\ Len(Links') = Len(Links)
          /\ \A i \in StoredIdx(resp'.link_id) :
                /\ Counter(Links'[i], resp'.vote_type)
                      = Counter(Links[i], resp'.vote_type) + 1
                /\ Counter(Links'[i], OtherType(resp'.vote_type))
                      = Counter(Links[i], OtherType(resp'.vote_type))
          /\ Votes' = Append(Votes, VoteRecord(resp'.link_id, resp'.vote_type,
                                               isoformat(resp'.now)))]_vars

C1_Witness ==
    /\ resp.op = "add_vote" /\ resp.status = 200
    /\ resp.vote_type = "like"
    /\ Len(Votes) = 2
    /\ \E i \in StoredIdx(resp.link_id) : Links[i].likes = 2

\* C2: a successful remove_vote(link_id) removes exactly one record, a
\* record of link_id with the greatest timestamp; the log shrinks by
\* exactly 1 and all other records stay in their order.
C2_RemovesExactlyOneRecord ==
    [][(resp'.op = "remove_vote" /\ resp'.status = 200)
       => /\ Len(Votes') = Len(Votes) - 1
          /\ \E k \in LogIdx(resp'.link_id) :
                /\ \A j \in LogIdx(resp'.link_id) :
                      ~StrLess(Votes[k].timestamp, Votes[j].timestamp)
                /\ Votes' = RemoveAt(Votes, k)]_vars

\* C3: a successful remove_vote(link_id) lowers by 1, floored at 0, the
\* counter named by the vote_type of a removed record that carries the
\* link's greatest timestamp, and leaves the other counter as it was; no
\* counter of a stored link is ever negative, drifted or not.
C3_RemoveVoteDecrementsFloored ==
    /\ [](\A i \in 1..Len(Links) : Links[i].likes >= 0 /\ Links[i].dislikes >= 0)
    /\ [][(resp'.op = "remove_vote" /\ resp'.status = 200)
          => \E k \in LogIdx(resp'.link_id) :
                /\ \A j \in LogIdx(resp'.link_id) :
                      ~StrLess(Votes[k].timestamp, Votes[j].timestamp)
                /\ \A m \in 1..Len(Votes') : Votes'[m] # Votes[k]
                /\ StoredIdx(resp'.link_id) # {}
                /\ \A i \in StoredIdx(resp'.link_id) :
                      /\ Counter(Links'[i], Votes[k].vote_type)
                            = Floor0(Counter(Links[i], Votes[k].vote_type) - 1)
                      /\ Counter(Links'[i], OtherType(Votes[k].vote_type))
                            = Counter(Links[i], OtherType(Votes[k].vote_type))]_vars

\* a removal has succeeded on a drifted link: its likes are 0 while the
\* log still holds a like of it
C3_Witness ==
    /\ resp.op = "remove_vote" /\ resp.status = 200
    /\ \E i \in StoredIdx(resp.link_id) :
          /\ Links[i].likes = 0
          /\ \E k \in LogIdx(resp.link_id) : Votes[k].vote_type = "like"

\* C4: add_vote with a link_id that no stored link has answers 404 and
\* leaves the links file and the votes file as they were, whatever the
\* vote_type.
C4_AddVoteUnknownLink ==
    [][(resp'.op = "add_vote" /\ StoredIdx(resp'.link_id) = {})
       => /\ resp'.status = 404
          /\ linksFile' = linksFile
          /\ votesFile' = votesFile]_vars

C4_Witness ==
    /\ resp.op = "add_vote" /\ resp.status = 404
    /\ resp.vote_type = "love"
    /\ StoredIdx(resp.link_id) = {}
    /\ Len(Links) > 0 /\ Len(Votes) > 0

\* C5: remove_vote(link_id) answers 404 when no stored link has link_id and
\* when the link is stored but the log has no record of it; it answers 200
\* exactly when the link is stored and the log has a record of it,
\* whatever the counters are.
C5_RemoveVoteStatus ==
    [][resp'.op = "remove_vote"
       => resp'.status =
             IF StoredIdx(resp'.link_id) # {} /\ LogIdx(resp'.link_id) # {}
             THEN 200 ELSE 404]_vars

\* 404 for want of records although a counter of the link is positive and
\* the log holds records of another link
C5_Witness ==
    /\ resp.op = "remove_vote" /\ resp.status = 404
    /\ \E i \in StoredIdx(resp.link_id) : Links[i].likes > 0
    /\ LogIdx(resp.link_id) = {}
    /\ Votes # <<>>

\* C6: POST /api/vote answers 404 when the link_id is unknown, 400 when the
\* link is stored and vote_type is neither "like" nor "dislike", 200 when
\* the link is stored and vote_type is one of the two.
C6_AddVoteStatus ==
    [][resp'.op = "add_vote"
       => resp'.status =
             IF StoredIdx(resp'.link_id) = {} THEN 404
             ELSE IF resp'.vote_type \notin {"like", "dislike"} THEN 400
             ELSE 200]_vars

C6_Witness ==
    /\ resp.op = "add_vote" /\ resp.status = 400
    /\ resp.vote_type = "love"
    /\ StoredIdx(resp.link_id) # {}

\* C7: a successful create appends a link with id = max(ids, default 0) + 1
\* and likes = dislikes = 0 behind the links already stored; from the empty
\* store the ids are 1, 2, ..., n in that order, whatever votes come between.
C7_CreateAssignsSequentialIds ==
    /\ [](\A i \in 1..Len(Links) : Links[i].id = i)
    /\ [][(resp'.op = "process_link" /\ resp'.status = 200)
          => /\ Len(Links') = Len(Links) + 1
             /\ \A i \in 1..Len(Links) : Links'[i] = Links[i]
             /\ Links'[Len(Links')].id
                   = MaxOf({Links[i].id : i \in 1..Len(Links)}, 0) + 1
             /\ Links'[Len(Links')].likes = 0
             /\ Links'[Len(Links')].dislikes = 0]_vars

\* the third link is created after votes were added and removed
C7_Witness ==
    /\ resp.op = "process_link" /\ resp.status = 200
    /\ Len(Links) = 3 /\ Links[3].id = 3
    /\ Links[1].likes > 0 /\ Len(Votes) < Links[1].likes + Links[1].dislikes

\* C8: GET /api/links returns every stored link exactly once, by score
\* (likes - dislikes) descending, links of equal score in stored order.
C8_RankStableDescending ==
    (resp.op = "get_links" /\ resp.status = 200)
    => /\ Len(resp.body) = Len(Links)
       /\ \A i \in 1..Len(Links) :
             Cardinality({j \in 1..Len(resp.body) : resp.body[j] = Links[i]}) = 1
       /\ \A j, k \in 1..Len(resp.body) :
             j < k => /\ Score(resp.body[j]) >= Score(resp.body[k])
                      /\ Score(resp.body[j]) = Score(resp.body[k])
                            => resp.body[j].id < resp.body[k].id

\* four links, the two of equal score not adjacent in the store
C8_Witness ==
    /\ resp.op = "get_links" /\ resp.status = 200
    /\ Len(Links) = 4
    /\ Score(Links[1]) = 0 /\ Score(Links[2]) = 1
    /\ Score(Links[3]) = 0 /\ Score(Links[4]) = -1
    /\ resp.body[1] = Links[2] /\ resp.body[2] = Links[1]

\* the requests answered 200 that voted vote_type on link_id
Voted(link_id, vote_type) ==
    {p \in Procs : /\ procs[p].pc = "done" /\ procs[p].status = 200
                   /\ procs[p].link_id = link_id
                   /\ procs[p].vote_type = vote_type}

Answered == \A p \in Procs : procs[p].pc = "done"

\* C9 as claimed: two add_vote requests submitted at once can interleave on
\* the files: while one handler stands between its reads and its last
\* write, the handler of the other, pending, request can read the links file.
C9_RequestsInterleave ==
    \A p \in Procs, q \in Procs :
        (p # q /\ InHandler(procs[p].pc) /\ procs[q].pc = "pending")
        => ENABLED StepReadLinks(q)

\* C9, amended: the handlers of two add_vote requests submitted at once run
\* one after the other, and when both are answered every vote answered 200
\* is in the stores: each counter of the link equals the number of requests
\* answered 200 for it and the log holds one record per such request.
C9_BothUpdatesReflected ==
    Answered
    => /\ \A i \in 1..Len(Links) : \A t \in {"like", "dislike"} :
             Counter(Links[i], t) = Cardinality(Voted(Links[i].id, t))
       /\ Len(Votes) = Cardinality({p \in Procs : procs[p].status = 200})

\* both requests liked link 1 and were answered 200
C9_Witness ==
    /\ Answered
    /\ Voted(1, "like") = Procs
    /\ Links[1].likes = 2 /\ Len(Votes) = 2

\* the records of the log for link_id with vote_type
RecordCount(link_id, vote_type) ==
    Cardinality({k \in LogIdx(link_id) : Votes[k].vote_type = vote_type})

\* by how much the counter of the i-th link exceeds its records in the log
Excess(i, vote_type) ==
    Counter(Links[i], vote_type) - RecordCount(Links[i].id, vote_type)

Drifted == \E i \in 1..Len(Links) : \E t \in {"like", "dislike"} : Excess(i, t) # 0

FailedWrites == {OpenFails, DumpFails}

\* the votes file after a votes write that ended with outcome wv
AfterFailedWrite(f, wv) == IF wv = OpenFails THEN f ELSE MalformedFile

Readable == linksFile.state = "ok" /\ votesFile.state # "malformed"

\* C10 as claimed: there is no reconciliation path; once a counter differs
\* from the number of matching records, no request that ends without a
\* failure brings them back to equality (while both files can be read).
C10_DriftNeverReconciled ==
    [][(Drifted /\ Readable' /\ resp'.status # 500) => Drifted']_vars

\* C10, amended: when the links write succeeds and the votes write fails the
\* request ends as 500 with the links file rewritten (add_vote: the counter
\* raised by 1; remove_vote: the counter lowered by 1, floored at 0) and the
\* votes file without the change (as it was when open() raises, unparsable
\* when the dump raises after the truncation).  After the failure of an
\* add_vote the counter exceeds the record count by 1 more than before and
\* no request that ends without a failure lowers the excess of any counter.
C10_PartialWriteDrift ==
    [][/\ \A link_id \in FaultLinkIds, t \in {"like", "dislike"}, wv \in FailedWrites :
             (/\ resp'.op = "add_vote" /\ resp'.status = 500
              /\ resp'.link_id = link_id /\ resp'.vote_type = t
              /\ ReachesWrites(link_id, t)
              /\ add_vote(link_id, t, <<0, 0>>, WriteOk, wv))
             => /\ votesFile' = AfterFailedWrite(votesFile, wv)
                /\ \A i \in StoredIdx(link_id) :
                      /\ Counter(Links'[i], t) = Counter(Links[i], t) + 1
                      /\ Counter(Links'[i], OtherType(t)) = Counter(Links[i], OtherType(t))
                      /\ wv = OpenFails => Excess(i, t)' = Excess(i, t) + 1
       /\ \A link_id \in FaultLinkIds, wv \in FailedWrites :
             (/\ resp'.op = "remove_vote" /\ resp'.status = 500
              /\ resp'.link_id = link_id
              /\ RemoveReachesWrites(link_id)
              /\ remove_vote(link_id, WriteOk, wv))
             => /\ votesFile' = AfterFailedWrite(votesFile, wv)
                /\ \A i \in StoredIdx(link_id) : \A t \in {"like", "dislike"} :
                      Counter(Links'[i], t) \in
                         {Counter(Links[i], t), Floor0(Counter(Links[i], t) - 1)}
       /\ resp'.status # 500
          => \A i \in 1..Len(Links) : \A t \in {"like", "dislike"} :
                Excess(i, t)' >= Excess(i, t)]_vars

\* an add_vote has just failed at the votes write: the like is counted and
\* not logged
C10_Witness ==
    /\ resp.op = "add_vote" /\ resp.status = 500
    /\ votesFile.state = "ok" /\ Votes = <<>>
    /\ Len(Links) = 1 /\ Links[1].likes = 1 /\ Links[1].dislikes = 0

\* C11 as claimed: a missing or unparsable links file is no data: listing
\* answers 200 with the empty sequence, and the vote operations answer as
\* on an empty store, 404 for want of the link.
C11_MissingOrMalformedIsNoData ==
    [][/\ (resp'.op = "get_links" /\ linksFile.state \in {"missing", "malformed"})
          => (resp'.status = 200 /\ resp'.body = <<>>)
       /\ (resp'.op \in {"add_vote", "remove_vote"}
           /\ linksFile.state \in {"missing", "malformed"})
          => resp'.status = 404]_vars

\* C11, amended: a missing file is no data, an unparsable file is an error.
\* Missing links file: listing answers 200 with the empty sequence, a
\* successful create stores the one link with id 1 and counters 0, the vote
\* operations answer 404 and write nothing.  Missing votes file: a
\* successful add_vote leaves a log of exactly its record, remove_vote
\* answers 404.  Unparsable file: every request that reads it answers 500
\* and both files stay as they were.
C11_MissingIsNoDataMalformedIsError ==
    [][/\ resp'.op = "get_links"
          => /\ linksFile.state = "missing"
                => (resp'.status = 200 /\ resp'.body = <<>>)
             /\ linksFile.state = "malformed" => resp'.status = 500
             /\ linksFile' = linksFile /\ votesFile' = votesFile
       /\ resp'.op = "process_link"
          => /\ (linksFile.state = "missing" /\ resp'.status = 200)
                => /\ Len(Links') = 1
                   /\ Links'[1].id = 1
                   /\ Links'[1].url = resp'.body[1].original_url
                   /\ Links'[1].likes = 0 /\ Links'[1].dislikes = 0
             /\ linksFile.state = "malformed"
                => (resp'.status = 500 /\ linksFile' = linksFile)
             /\ votesFile' = votesFile
       /\ resp'.op \in {"add_vote", "remove_vote"}
          => IF linksFile.state = "malformed" \/ votesFile.state = "malformed"
             THEN /\ resp'.status = 500
                  /\ linksFile' = linksFile /\ votesFile' = votesFile
             ELSE /\ linksFile.state = "missing"
                     => /\ resp'.status = 404
                        /\ linksFile' = linksFile /\ votesFile' = votesFile
                  /\ (votesFile.state = "missing" /\ resp'.op = "remove_vote")
                     => /\ resp'.status = 404
                        /\ linksFile' = linksFile /\ votesFile' = votesFile
                  /\ (votesFile.state = "missing" /\ resp'.op = "add_vote"
                      /\ resp'.status = 200)
                     => Votes' = <<VoteRecord(resp'.link_id, resp'.vote_type,
                                              isoformat(resp'.now))>>]_vars

\* the listing of an unparsable links file has been answered 500 while the
\* votes file was never created
C11_Witness ==
    /\ resp.op = "get_links" /\ resp.status = 500
    /\ linksFile.state = "malformed"
    /\ votesFile.state = "missing"

\* C12: over requests that run one at a time, a stored link is never
\* deleted and keeps its place, id, url, title and description; its likes
\* or dislikes change only in a step that is an add_vote or remove_vote
\* answered 200 for that link's id (a step that leaves the links file as
\* it was changes nothing of a link).
C12_LinkLifecycle ==
    [][linksFile' # linksFile
       => LET old == Links
              new == Links'
          IN  /\ Len(new) >= Len(old)
              /\ \A i \in 1..Len(old) :
                    /\ new[i].id = old[i].id
                    /\ new[i].url = old[i].url
                    /\ new[i].title = old[i].title
                    /\ new[i].description = old[i].description
                    /\ (new[i].likes # old[i].likes
                        \/ new[i].dislikes # old[i].dislikes)
                       => /\ resp'.op \in {"add_vote", "remove_vote"}
                          /\ resp'.status = 200
                          /\ resp'.link_id = old[i].id]_vars

\* a link was created after the first one had been voted on, and the
\* second one was voted on too, before the last listing
C12_Witness ==
    /\ resp.op = "get_links"
    /\ Len(Links) = 2
    /\ Links[1].likes = 1 /\ Links[2].dislikes = 1

\* C13: reading back with read_links what write_links wrote yields as many
\* records as were written, in the same order, each equal to the link
\* written in id, url, title, description, likes and dislikes.
C13_LinkStoreRoundTrip ==
    resp.op = "read_links"
    => /\ resp.status = 200
       /\ Len(resp.body) = Len(procs[1].links)
       /\ \A i \in 1..Len(procs[1].links) :
             /\ resp.body[i].id = procs[1].links[i].id
             /\ resp.body[i].url = procs[1].links[i].url
             /\ resp.body[i].title = procs[1].links[i].title
             /\ resp.body[i].description = procs[1].links[i].description
             /\ resp.body[i].likes = procs[1].links[i].likes
             /\ resp.body[i].dislikes = procs[1].links[i].dislikes

\* two links with the same id, an empty url and different counters came back
C13_Witness ==
    /\ resp.op = "read_links"
    /\ Len(resp.body) = 2
    /\ resp.body[1].id = resp.body[2].id
    /\ resp.body[1].url = ""
    /\ resp.body[1].likes = 1 /\ resp.body[2].likes = 0
    /\ resp.body[2].dislikes = 3

Absent(given) == given = NoneVal \/ given = ""

\* C14: POST /api/process-link with title (description) absent or empty
\* answers "Not Provided" in that field of the response and stores
\* "No Title Provided" ("No Description Provided"); with a non-empty value
\* the response field and the stored field both equal the value given.
C14_ProcessLinkDefaults ==
    [][\A data \in ProcessDatas :
          (resp'.op = "process_link" /\ process_link(data, WriteOk))
          => LET result == resp'.body[1]
                 stored == Links'[Len(Links')]
             IN  /\ resp'.status = 200
                 /\ Len(Links') = Len(Links) + 1
                 /\ result.original_url = data.url /\ stored.url = data.url
                 /\ IF Absent(data.title)
                    THEN /\ result.title = "Not Provided"
                         /\ stored.title = "No Title Provided"
                    ELSE /\ result.title = data.title
                         /\ stored.title = data.title
                 /\ IF Absent(data.description)
                    THEN /\ result.description = "Not Provided"
                         /\ stored.description = "No Description Provided"
                    ELSE /\ result.description = data.description
                         /\ stored.description = data.description]_vars

\* a body without title and with a description has been processed
C14_Witness ==
    /\ resp.op = "process_link" /\ resp.status = 200
    /\ resp.body[1].title = "Not Provided"
    /\ Links[Len(Links)].title = "No Title Provided"
    /\ resp.body[1].description = "D"
    /\ Links[Len(Links)].description = "D"

\* C15: with requests one at a time, no write failure and the timestamps of
\* the votes of a link pairwise distinct, every stored link's likes equals
\* the number of log records with its id and vote_type "like", and its
\* dislikes the number of those with vote_type "dislike".
C15_CountersMatchLog ==
    \A i \in 1..Len(Links) :
        /\ Links[i].likes = RecordCount(Links[i].id, "like")
        /\ Links[i].dislikes = RecordCount(Links[i].id, "dislike")

\* the later of two votes of a link has been removed, a dislike
C15_Witness ==
    /\ resp.op = "remove_vote" /\ resp.status = 200
    /\ Len(Votes) = 1 /\ Votes[1].vote_type = "like"
    /\ \E i \in StoredIdx(resp.link_id) :
          Links[i].likes = 1 /\ Links[i].dislikes = 0

\* C16: a request answered 400 or 404 leaves the links file and the votes
\* file exactly as they were: add_vote with an invalid vote_type on a stored
\* link writes no counter and appends no record, and remove_vote answered
\* 404 (unknown link, or no record of the link) rewrites neither file.
C16_RefusedRequestWritesNothing ==
    [][resp'.status \in {400, 404}
       => /\ resp'.op \in {"add_vote", "remove_vote"}
          /\ linksFile' = linksFile
          /\ votesFile' = votesFile]_vars

\* remove_vote of a stored link without records was answered 404 and the
\* link is still stored as save_link wrote it, the votes file not created
C16_Witness ==
    /\ resp.op = "remove_vote" /\ resp.status = 404
    /\ StoredIdx(resp.link_id) # {}
    /\ ~linksFile.data[1].has_counts
    /\ votesFile.state = "missing"

\* C17: the ids of the stored links are pairwise distinct in every state of
\* the links file, also when create, add_vote and remove_vote requests
\* interleave at their whole-file reads and whole-file writes.
C17_LinkIdsDistinct ==
    \A i, j \in 1..Len(linksFile.data) :
        i # j => linksFile.data[i].id # linksFile.data[j].id

\* two creates raced on the empty store: both were answered 200 with the
\* id 1, one link was lost, and a third create stored a link with id 2
C17_Witness ==
    /\ \A p \in RaceProcs :
          /\ procs[p].pc = "done" /\ procs[p].status = 200
          /\ procs[p].vote_type = NoneVal /\ procs[p].link_id = 0
    /\ Len(procs[1].links) = 1 /\ Len(procs[2].links) = 1
    /\ FileLen(linksFile) = 2
    /\ linksFile.data[1].id = 1 /\ linksFile.data[2].id = 2

\* the last record of the log is of link_id and its timestamp is strictly
\* greater than the timestamp of every other record of link_id
NewestIsLast(link_id) ==
    /\ Votes # <<>>
    /\ Votes[Len(Votes)].link_id = link_id
    /\ \A k \in LogIdx(link_id) \ {Len(Votes)} :
          StrLess(Votes[k].timestamp, Votes[Len(Votes)].timestamp)

\* the links as they were before a vote of vote_type on link_id was counted
BeforeVote(links, link_id, vote_type) ==
    [i \in 1..Len(links) |->
        IF links[i].id # link_id THEN links[i]
        ELSE IF vote_type = "like" THEN [links[i] EXCEPT !.likes = @ - 1]
        ELSE [links[i] EXCEPT !.dislikes = @ - 1]]

\* C18: remove_vote undoes add_vote.  When no counter has drifted and a
\* successful add_vote(link_id, t) has just appended a record whose
\* timestamp is strictly greater than that of every other record of the
\* link, a remove_vote(link_id) that follows immediately is answered 200
\* and leaves the links and the vote log as they were before the add_vote:
\* the log without its last record, the link's counter for t one lower.
C18_RemoveUndoesAdd ==
    [][(/\ resp.op = "add_vote" /\ resp.status = 200
        /\ resp'.op = "remove_vote" /\ resp'.link_id = resp.link_id
        /\ NewestIsLast(resp.link_id)
        /\ ~Drifted)
       => /\ resp'.status = 200
          /\ Votes' = SubSeq(Votes, 1, Len(Votes) - 1)
          /\ Links' = BeforeVote(Links, resp.link_id, resp.vote_type)]_vars

\* a vote has been removed from a link that keeps an older vote of the
\* other type, and the counters of the link match the log
C18_Witness ==
    /\ resp.op = "remove_vote" /\ resp.status = 200
    /\ Len(Votes) = 1 /\ Votes[1].link_id = resp.link_id
    /\ Votes[1].vote_type = "dislike" /\ Votes[1].timestamp = <<0>>
    /\ Len(Links) = 2
    /\ \E i \in StoredIdx(resp.link_id) :
          Links[i].likes = 0 /\ Links[i].dislikes = 1

====
